---- MODULE Spec2Model ----
(***************************************************************************)
(* Model of pyexchange/tethfinex.py: the Order and Trade value objects,    *)
(* their normalisation from raw API records (Order.to_order,               *)
(* Trade.to_trade), the TEthfinexToken.deposit call builder and the        *)
(* TEthfinexApi HTTP client.                                               *)
(*                                                                         *)
(* Wad is pymaker's fixed-point number: an integer `value` counting        *)
(* 10^-18 units.  Multiplication and division of two Wads and              *)
(* Wad.from_number round toward zero; a division by a zero Wad raises an   *)
(* arithmetic error.  The model keeps the arithmetic and scales the number *)
(* of decimals down to WadDecimals so that values stay small.              *)
(***************************************************************************)
EXTENDS Integers, Sequences, FiniteSets, TLC

\* ------------------------------------------------------------------ bounds
WadDecimals == 1      \* decimals of a Wad in the model (18 in pymaker)
MaxLen == 2           \* longest JSON list a server response carries
MaxId == 2            \* order ids range over 1..MaxId
MaxPage == 2          \* page_number ranges over 0..MaxPage

\* ------------------------------------------------- fixed-point arithmetic
WadUnit == 10 ^ WadDecimals          \* Wad value of 1.0
RawScale == 10 * WadUnit             \* raw JSON numbers carry one more decimal

Abs(n) == IF n < 0 THEN -n ELSE n

\* integer division rounding toward zero (ROUND_DOWN), b # 0
TruncDiv(a, b) ==
    LET q == Abs(a) \div Abs(b)
    IN  IF (a < 0) # (b < 0) THEN -q ELSE q

\* Wad.from_number: a raw number n / RawScale, truncated to WadDecimals
from_number(n) == TruncDiv(n * WadUnit, RawScale)

\* Wad.__mul__
Wad_mul(a, b) == TruncDiv(a * b, WadUnit)

\* Wad.__truediv__, defined for b # 0; for b = 0 the division raises
Wad_truediv(a, b) == TruncDiv(a * WadUnit, b)

\* ------------------------------------------------------ call outcomes
NoOutcome == [kind |-> "none", value |-> <<>>, error |-> ""]
Return(v) == [kind |-> "return", value |-> v, error |-> ""]
Raise(e) == [kind |-> "raise", value |-> <<>>, error |-> e]

\* ------------------------------------------------------ Order and Trade
Order(order_id, pair, is_sell, price, amount) ==
    [order_id |-> order_id, pair |-> pair, is_sell |-> is_sell,
     price |-> price, amount |-> amount]

Trade(trade_id, timestamp, is_sell, pair, price, amount) ==
    [trade_id |-> trade_id, timestamp |-> timestamp, is_sell |-> is_sell,
     pair |-> pair, price |-> price, amount |-> amount]

\* to_order with the divisor guarded: a zero quote gives price 0
to_order_guarded(pair, order) ==
    LET amount == Abs(from_number(order.amount))
        quote == Wad_mul(amount, from_number(order.price))
    IN  Return(Order(order.id, pair, from_number(order.amount) > 0,
                     IF quote = 0 THEN 0 ELSE Wad_truediv(amount, quote),
                     quote))

\* to_order with the stored amount keeping the raw sign
to_order_signed(pair, order) ==
    LET amount == from_number(order.amount)
        quote == Wad_mul(amount, from_number(order.price))
    IN  IF quote = 0
        THEN Raise("ArithmeticError")
        ELSE Return(Order(order.id, pair, amount > 0,
                          Wad_truediv(amount, quote), quote))

\* to_order reading the side from the opposite sign
to_order_flipped(pair, order) ==
    LET is_sell == from_number(order.amount) < 0
        amount == Abs(from_number(order.amount))
        quote == Wad_mul(amount, from_number(order.price))
    IN  IF quote = 0
        THEN Raise("ArithmeticError")
        ELSE Return(Order(order.id, pair, is_sell,
                          Wad_truediv(amount, quote), quote))

\* Order.to_order
to_order(pair, order) ==
    LET is_sell == from_number(order.amount) > 0
        amount == Abs(from_number(order.amount))
        quote == Wad_mul(amount, from_number(order.price))
    IN  IF quote = 0
        THEN Raise("ArithmeticError")
        ELSE Return(Order(order.id, pair, is_sell,
                          Wad_truediv(amount, quote), quote))

\* dateutil.parser.parse(updated_at + 'Z').timestamp(): updated_at is a
\* time of day on the epoch date, [h, m, s]
parse_utc(updated_at) ==
    updated_at.h * 3600 + updated_at.m * 60 + updated_at.s

\* to_trade storing the raw price instead of its reciprocal
to_trade_direct(trade) ==
    LET amount_orig == from_number(trade.amount_orig)
        total == Wad_mul(from_number(trade.price), amount_orig)
    IN  IF total = 0
        THEN Raise("ArithmeticError")
        ELSE Return(Trade(trade.id, parse_utc(trade.updated_at), amount_orig > 0,
                          trade.pair, from_number(trade.price), Abs(total)))

\* Trade.to_trade
to_trade(trade) ==
    LET amount_orig == from_number(trade.amount_orig)
        total == Wad_mul(from_number(trade.price), amount_orig)
    IN  IF total = 0
        THEN Raise("ArithmeticError")
        ELSE Return(Trade(trade.id, parse_utc(trade.updated_at), amount_orig > 0,
                          trade.pair, Wad_truediv(amount_orig, total), Abs(total)))

\* ------------------------------------------------------ Python strings
\* a str is a sequence of one-character strings
DigitChars == <<"0", "1", "2", "3", "4", "5", "6", "7", "8", "9">>

RECURSIVE Digits(_)
Digits(n) ==
    IF n < 10 THEN <<DigitChars[n + 1]>>
    ELSE Digits(n \div 10) \o <<DigitChars[(n % 10) + 1]>>

\* str(n) of an int
PyStr(n) == IF n < 0 THEN <<"-">> \o Digits(-n) ELSE Digits(n)

RECURSIVE Zeros(_)
Zeros(k) == IF k <= 0 THEN <<>> ELSE <<"0">> \o Zeros(k - 1)

\* str.zfill: pads with zeros after a leading sign
zfill(s, width) ==
    IF Len(s) >= width THEN s
    ELSE IF Len(s) > 0 /\ s[1] \in {"-", "+"}
         THEN <<s[1]>> \o Zeros(width - Len(s)) \o Tail(s)
         ELSE Zeros(width - Len(s)) \o s

\* Wad.__str__: the value with a decimal point before the last WadDecimals
\* digits, "-." replaced by "-0."
Wad_str(w) ==
    LET tmp == zfill(PyStr(w), WadDecimals + 1)
        cut == Len(tmp) - WadDecimals
        s == SubSeq(tmp, 1, cut) \o <<".">> \o SubSeq(tmp, cut + 1, Len(tmp))
    IN  IF Len(s) >= 2 /\ s[1] = "-" /\ s[2] = "."
        THEN <<"-", "0">> \o Tail(s)
        ELSE s

\* ------------------------------------------------------ JSON and HTTP
\* a parsed JSON value: t is its type, v the items of a list, keys the keys
\* of an object
JList(items) == [t |-> "list", v |-> items, keys |-> <<>>]
JObject(keys) == [t |-> "object", v |-> <<>>, keys |-> keys]
JNull == [t |-> "null", v |-> <<>>, keys |-> <<>>]
JScalar == [t |-> "num", v |-> <<>>, keys |-> <<>>]
\* a JSON list item that is a number n, or the string spelling n
JNum(n) == [t |-> "num", n |-> n]
JStr(n) == [t |-> "str", n |-> n]

\* what requests.get / requests.post hand back: nothing (the call raised),
\* or a response with its ok flag and a body that is JSON or not
NoResponse == [delivered |-> FALSE, ok |-> FALSE, isJson |-> FALSE, json |-> JNull]

Responses(J) ==
    {NoResponse}
    \cup {[delivered |-> TRUE, ok |-> o, isJson |-> FALSE, json |-> JNull] :
              o \in BOOLEAN}
    \cup {[delivered |-> TRUE, ok |-> o, isJson |-> TRUE, json |-> j] :
              o \in BOOLEAN, j \in J}

HttpError == "Ethfinex API invalid HTTP response"
JsonError == "Ethfinex API invalid JSON response"

\* _result parsing the body before looking at the status
result_json_first(resp) ==
    IF ~resp.isJson THEN Raise(JsonError)
    ELSE IF ~resp.ok THEN Raise(HttpError)
    ELSE Return(resp.json)

\* TEthfinexApi._result
_result(resp) ==
    IF ~resp.ok THEN Raise(HttpError)
    ELSE IF ~resp.isJson THEN Raise(JsonError)
    ELSE Return(resp.json)

EmptyDict == <<>>
api_server == "https://api"

Request(verb, resource, body) ==
    [verb |-> verb, url |-> <<api_server>> \o resource,
     hasJson |-> DOMAIN body # {}, json |-> body]

\* TEthfinexApi._http_get: one GET, then _result; log is the requests issued
_http_get(resource, body, resp) ==
    [log |-> <<Request("GET", resource,
                       IF DOMAIN body = {} THEN body ELSE [dumps |-> body])>>,
     res |-> IF resp.delivered THEN _result(resp) ELSE Raise("RequestException")]

\* _http_post issuing the request again when the first attempt fails
http_post_retry(resource, body, resp) ==
    LET req == Request("POST", resource, body)
        res == IF resp.delivered THEN _result(resp) ELSE Raise("RequestException")
    IN  [log |-> IF res.kind = "raise" THEN <<req, req>> ELSE <<req>>,
         res |-> res]

\* TEthfinexApi._http_post: one POST, then _result
_http_post(resource, body, resp) ==
    [log |-> <<Request("POST", resource, body)>>,
     res |-> IF resp.delivered THEN _result(resp) ELSE Raise("RequestException")]

\* pymaker.sign.eth_sign of the bytes of a str, by the web3 default account
defaultAccount == "0xmaker"
eth_sign(msg) == [signer |-> defaultAccount, msg |-> msg]

NonceSkew == 3

\* TEthfinexApi._get_orders: a nonce-stamped signed POST
_get_orders(endpoint, now, resp) ==
    LET nonce == PyStr(now + NonceSkew)
        body == [protocol |-> "0x", nonce |-> nonce, signature |-> eth_sign(nonce)]
        h == _http_post(endpoint, body, resp)
    IN  [log |-> h.log, res |-> h.res, signs |-> <<nonce>>]

\* result[0] of a parsed JSON value
index0(json) ==
    CASE json.t = "list" ->
             IF Len(json.v) > 0 THEN Return(json.v[1]) ELSE Raise("IndexError")
      [] json.t = "object" -> Raise("KeyError")
      [] OTHER -> Raise("TypeError")

\* result[0] == order_id, result[0] a JSON number or string
py_eq(item, order_id) == item.t = "num" /\ item.n = order_id

\* ------------------------------------------------------ list conversions
RECURSIVE map_to_order(_, _)
map_to_order(pair, items) ==
    IF Len(items) = 0 THEN Return(<<>>)
    ELSE LET h == to_order(pair, Head(items))
         IN  IF h.kind = "raise" THEN h
             ELSE LET r == map_to_order(pair, Tail(items))
                  IN  IF r.kind = "raise" THEN r
                      ELSE Return(<<h.value>> \o r.value)

\* 'EXECUTED' in order['status'], status a sequence of words
is_executed(order) == \E i \in 1..Len(order.status) : order.status[i] = "EXECUTED"

RECURSIVE map_executed(_)
map_executed(items) ==
    IF Len(items) = 0 THEN Return(<<>>)
    ELSE IF ~is_executed(Head(items)) THEN map_executed(Tail(items))
    ELSE LET h == to_trade(Head(items))
         IN  IF h.kind = "raise" THEN h
             ELSE LET r == map_executed(Tail(items))
                  IN  IF r.kind = "raise" THEN r
                      ELSE Return(<<h.value>> \o r.value)

\* the lambda of get_all_trades: the price is taken as reported
public_trade(pair, item) ==
    Trade(item.tid, item.timestamp, item.type = "sell", pair,
          from_number(item.price), from_number(item.amount))

\* list(map(f, result)) over a parsed JSON value whose items f converts:
\* a list is mapped, an object iterates its keys (strings, which f cannot
\* index), anything else is not iterable
map_json(json, mapped) ==
    CASE json.t = "list" -> mapped
      [] json.t = "object" ->
             IF Len(json.keys) = 0 THEN Return(<<>>) ELSE Raise("TypeError")
      [] OTHER -> Raise("TypeError")

\* ------------------------------------------------------ TEthfinexToken
Transact(function_name, parameters, extra) ==
    [function_name |-> function_name, parameters |-> parameters, extra |-> extra]

\* deposit attaching the value whatever the token
deposit_always_value(token, amount, duration) ==
    [handle |-> Transact("deposit", <<amount, duration>>, {<<"value", amount>>}),
     sent |-> <<>>]

\* TEthfinexToken.deposit: the Transact it builds (extra is the dict of
\* transaction options, as a set of key/value pairs) and the transactions
\* it sends itself
deposit(token, amount, duration) ==
    IF token = "ETH"
    THEN [handle |-> Transact("deposit", <<amount, duration>>, {<<"value", amount>>}),
          sent |-> <<>>]
    ELSE [handle |-> Transact("deposit", <<amount, duration>>, {}),
          sent |-> <<>>]

\* ------------------------------------------------------ TEthfinexApi
\* what one invocation did: its outcome, the HTTP requests it issued, what
\* _http_get/_http_post gave it, and the messages it signed
Did(out, log, res, signs) == [out |-> out, log |-> log, res |-> res, signs |-> signs]

Rejected == Did(Raise("AssertionError"), <<>>, NoOutcome, <<>>)

get_symbols(resp) ==
    LET h == _http_get(<<"/v1/symbols">>, EmptyDict, resp)
    IN  Did(h.res, h.log, h.res, <<>>)

get_config(resp) ==
    LET h == _http_post(<<"/trustless/v1/r/get/conf">>, EmptyDict, resp)
    IN  Did(h.res, h.log, h.res, <<>>)

get_orders(pair, now, resp) ==
    LET h == _get_orders(<<"/trustless/v1/r/orders/t", pair>>, now, resp)
    IN  Did(IF h.res.kind = "raise" THEN h.res
            ELSE map_json(h.res.value, map_to_order(pair, h.res.value.v)),
            h.log, h.res, h.signs)

ExpirationHours == 6

\* the ZrxOrder place_order signs
ZrxOrder(is_sell, pay_amount, buy_amount, fee_address, salt, now) ==
    [maker |-> defaultAccount, taker |-> fee_address,
     maker_fee |-> 0, taker_fee |-> 0,
     pay_amount |-> IF is_sell
                    THEN Wad_mul(Wad_truediv(pay_amount, buy_amount), buy_amount)
                    ELSE pay_amount,
     buy_amount |-> IF is_sell
                    THEN buy_amount
                    ELSE Wad_mul(Wad_truediv(buy_amount, pay_amount), pay_amount),
     salt |-> salt, fee_recipient |-> fee_address,
     expiration |-> now + ExpirationHours * 3600]

\* place_order writing the amount of the other side on the wire
place_order_swapped(is_sell, pay_amount, buy_amount, fee_address, pair, salt, now, resp) ==
    IF (IF is_sell THEN buy_amount ELSE pay_amount) = 0
    THEN Did(Raise("ArithmeticError"), <<>>, NoOutcome, <<>>)
    ELSE LET order == ZrxOrder(is_sell, pay_amount, buy_amount, fee_address, salt, now)
             data == [type |-> "EXCHANGE LIMIT",
                      symbol |-> <<"t", pair>>,
                      amount |-> IF is_sell THEN Wad_str(pay_amount)
                                 ELSE <<"-">> \o Wad_str(buy_amount),
                      price |-> IF is_sell
                                THEN Wad_str(Wad_truediv(pay_amount, buy_amount))
                                ELSE Wad_str(Wad_truediv(buy_amount, pay_amount)),
                      meta |-> order,
                      protocol |-> "0x"]
             h == _http_post(<<"/trustless/v1/w/on">>, data, resp)
         IN  Did(IF h.res.kind = "raise" THEN h.res ELSE index0(h.res.value),
                 h.log, h.res, <<order>>)

\* TEthfinexApi.place_order: the divisions of the ZrxOrder come first, then
\* sign_order, then the POST of the payload; returns result[0]
place_order(is_sell, pay_amount, buy_amount, fee_address, pair, salt, now, resp) ==
    IF (IF is_sell THEN buy_amount ELSE pay_amount) = 0
    THEN Did(Raise("ArithmeticError"), <<>>, NoOutcome, <<>>)
    ELSE LET order == ZrxOrder(is_sell, pay_amount, buy_amount, fee_address, salt, now)
             data == [type |-> "EXCHANGE LIMIT",
                      symbol |-> <<"t", pair>>,
                      amount |-> IF is_sell THEN Wad_str(buy_amount)
                                 ELSE <<"-">> \o Wad_str(pay_amount),
                      price |-> IF is_sell
                                THEN Wad_str(Wad_truediv(pay_amount, buy_amount))
                                ELSE Wad_str(Wad_truediv(buy_amount, pay_amount)),
                      meta |-> order,
                      protocol |-> "0x"]
             h == _http_post(<<"/trustless/v1/w/on">>, data, resp)
         IN  Did(IF h.res.kind = "raise" THEN h.res ELSE index0(h.res.value),
                 h.log, h.res, <<order>>)

\* TEthfinexApi.cancel_order
cancel_order(order_id, resp) ==
    LET msg == PyStr(order_id)
        data == [orderId |-> msg, protocol |-> "0x", signature |-> eth_sign(msg)]
        h == _http_post(<<"/trustless/v1/w/oc">>, data, resp)
        first == IF h.res.kind = "raise" THEN h.res ELSE index0(h.res.value)
    IN  Did(IF first.kind = "raise" THEN first
            ELSE Return(py_eq(first.value, order_id)),
            h.log, h.res, <<msg>>)

\* get_trades checking page_number after the history was fetched
get_trades_late_assert(pair, page_number, now, resp) ==
    LET h == _get_orders(<<"/trustless/v1/r/orders/hist">>, now, resp)
    IN  Did(IF h.res.kind = "raise" THEN h.res
            ELSE IF page_number # 1 THEN Raise("AssertionError")
            ELSE map_json(h.res.value, map_executed(h.res.value.v)),
            h.log, h.res, h.signs)

\* TEthfinexApi.get_trades
get_trades(pair, page_number, now, resp) ==
    IF page_number # 1 THEN Rejected
    ELSE LET h == _get_orders(<<"/trustless/v1/r/orders/hist">>, now, resp)
         IN  Did(IF h.res.kind = "raise" THEN h.res
                 ELSE map_json(h.res.value, map_executed(h.res.value.v)),
                 h.log, h.res, h.signs)

\* TEthfinexApi.get_all_trades
get_all_trades(pair, page_number, resp) ==
    IF page_number # 1 THEN Rejected
    ELSE LET h == _http_get(<<"/v1/trades/", pair>>, EmptyDict, resp)
         IN  Did(IF h.res.kind = "raise" THEN h.res
                 ELSE map_json(h.res.value,
                               Return([i \in 1..Len(h.res.value.v) |->
                                          public_trade(pair, h.res.value.v[i])])),
                 h.log, h.res, <<>>)

\* ------------------------------------------------------ inputs
Pairs == {"ETHUSD"}
Ids == 1..MaxId
Pages == 0..MaxPage
Clock == {100}
Salts == {0, 1}

Signed(mags) == {0} \cup mags \cup {-m : m \in mags}

\* raw JSON numbers, in units of 1 / RawScale: half a Wad unit (from_number
\* truncates it to 0), one Wad unit, 0.5, 1.0, 2.0 and 3.0, of either sign
RawNumbers == Signed({5, 10, RawScale \div 2, RawScale, 2 * RawScale, 3 * RawScale})

\* the numbers the records of a listed response carry
ListAmounts == {-RawScale, 0, 10, RawScale, 3 * RawScale}
ListPrices == {-RawScale, 0, RawScale \div 2, 3 * RawScale}

RawOrder(id, amount, price) == [id |-> id, amount |-> amount, price |-> price]

Statuses == {<<"EXECUTED", "@", "1.0(0.5)">>, <<"CANCELED">>}

RawTrade(id, pair, amount_orig, price, status) ==
    [id |-> id, pair |-> pair, amount_orig |-> amount_orig, price |-> price,
     status |-> status, updated_at |-> [h |-> 0, m |-> id, s |-> 0]]

\* the sequences of at most MaxLen choices
ListsOf(Choices) == UNION {[1..k -> Choices] : k \in 0..MaxLen}

\* the records of a list carry their position as id
OrderLists ==
    {[i \in DOMAIN f |-> RawOrder(i, f[i][1], f[i][2])] :
         f \in ListsOf(ListAmounts \X ListPrices)}

TradeLists ==
    {[i \in DOMAIN f |-> RawTrade(i, "ETHUSD", f[i][1], f[i][2], f[i][3])] :
         f \in ListsOf(ListAmounts \X ListPrices \X Statuses)}

PublicTradeLists ==
    {[i \in DOMAIN f |-> [tid |-> i, timestamp |-> 60 * i, type |-> f[i][1],
                          price |-> f[i][2], amount |-> RawScale]] :
         f \in ListsOf({"sell", "buy"} \X {5, RawScale})}

IdLists == ListsOf({JNum(i) : i \in Ids} \cup {JStr(i) : i \in Ids})

\* the JSON bodies a server may answer with: a list or something else
NotAList == {JObject(<<>>), JObject(<<"error">>), JScalar, JNull}
Json(Lists) == {JList(l) : l \in Lists} \cup NotAList

\* Wad arguments of place_order and deposit
WadAmounts == {-WadUnit, 0, 1, WadUnit, 3 * WadUnit}
Tokens == {"ETH", "DAI", "eth"}
DefaultDuration == 500
Durations == {1, DefaultDuration}

\* ------------------------------------------------------ state
VARIABLES
    pc,          \* "idle", or "done" once an invocation has ended
    method,      \* the operation invoked
    args,        \* its arguments
    response,    \* what the server answered to its HTTP request
    result,      \* what _http_get/_http_post gave the operation
    httpLog,     \* the HTTP requests the invocation issued
    signLog,     \* the messages the invocation signed
    transacted,  \* the transactions the invocation sent to the chain
    outcome      \* what the invocation returned or raised

vars == <<pc, method, args, response, result, httpLog, signLog, transacted, outcome>>

Init ==
    /\ pc = "idle"
    /\ method = "none"
    /\ args = <<>>
    /\ response = NoResponse
    /\ result = NoOutcome
    /\ httpLog = <<>>
    /\ signLog = <<>>
    /\ transacted = <<>>
    /\ outcome = NoOutcome

\* an invocation of the API client ends having done d
Finish(m, a, resp, d) ==
    /\ pc' = "done"
    /\ method' = m
    /\ args' = a
    /\ response' = IF Len(d.log) = 0 THEN NoResponse ELSE resp
    /\ result' = d.res
    /\ httpLog' = d.log
    /\ signLog' = d.signs
    /\ transacted' = <<>>
    /\ outcome' = d.out

\* a call of a function that touches neither the network nor the chain
Pure(m, a, out) == Finish(m, a, NoResponse, Did(out, <<>>, NoOutcome, <<>>))

CallToOrder ==
    /\ pc = "idle"
    /\ \E pair \in Pairs, amount \in RawNumbers, price \in RawNumbers :
          LET order == RawOrder(1, amount, price)
          IN  Pure("to_order", [pair |-> pair, order |-> order], to_order(pair, order))

CallToTrade ==
    /\ pc = "idle"
    /\ \E pair \in Pairs, amount \in RawNumbers, price \in RawNumbers :
          LET trade == RawTrade(1, pair, amount, price, <<"EXECUTED">>)
          IN  Pure("to_trade", [trade |-> trade], to_trade(trade))

CallDeposit ==
    /\ pc = "idle"
    /\ \E token \in Tokens, amount \in WadAmounts, duration \in Durations :
          LET d == deposit(token, amount, duration)
          IN  /\ pc' = "done"
              /\ method' = "deposit"
              /\ args' = [token |-> token, amount |-> amount, duration |-> duration]
              /\ outcome' = Return(d.handle)
              /\ transacted' = d.sent
              /\ response' = NoResponse
              /\ result' = NoOutcome
              /\ httpLog' = <<>>
              /\ signLog' = <<>>

CallGetSymbols ==
    /\ pc = "idle"
    /\ \E resp \in Responses(Json({<<>>, <<"ethusd">>})) :
          Finish("get_symbols", <<>>, resp, get_symbols(resp))

CallGetConfig ==
    /\ pc = "idle"
    /\ \E resp \in Responses(Json({<<>>})) :
          Finish("get_config", <<>>, resp, get_config(resp))

CallGetOrders ==
    /\ pc = "idle"
    /\ \E pair \in Pairs, now \in Clock, resp \in Responses(Json(OrderLists)) :
          Finish("get_orders", [pair |-> pair], resp, get_orders(pair, now, resp))

CallPlaceOrder ==
    /\ pc = "idle"
    /\ \E is_sell \in BOOLEAN, pay_amount \in WadAmounts, buy_amount \in WadAmounts,
          pair \in Pairs, salt \in Salts, now \in Clock,
          resp \in Responses(Json(IdLists)) :
          Finish("place_order",
                 [is_sell |-> is_sell, pay_amount |-> pay_amount,
                  buy_amount |-> buy_amount, pair |-> pair],
                 resp,
                 place_order(is_sell, pay_amount, buy_amount, "0xfee", pair,
                             salt, now, resp))

CallCancelOrder ==
    /\ pc = "idle"
    /\ \E order_id \in Ids, resp \in Responses(Json(IdLists)) :
          Finish("cancel_order", [order_id |-> order_id], resp,
                 cancel_order(order_id, resp))

CallGetTrades ==
    /\ pc = "idle"
    /\ \E pair \in Pairs, page_number \in Pages, now \in Clock,
          resp \in Responses(Json(TradeLists)) :
          Finish("get_trades", [pair |-> pair, page_number |-> page_number], resp,
                 get_trades(pair, page_number, now, resp))

CallGetAllTrades ==
    /\ pc = "idle"
    /\ \E pair \in Pairs, page_number \in Pages,
          resp \in Responses(Json(PublicTradeLists)) :
          Finish("get_all_trades", [pair |-> pair, page_number |-> page_number], resp,
                 get_all_trades(pair, page_number, resp))

\* the caller takes the outcome; the next invocation starts from scratch
\* (the client keeps nothing between calls)
Done ==
    /\ pc = "done"
    /\ pc' = "idle"
    /\ method' = "none"
    /\ args' = <<>>
    /\ response' = NoResponse
    /\ result' = NoOutcome
    /\ httpLog' = <<>>
    /\ signLog' = <<>>
    /\ transacted' = <<>>
    /\ outcome' = NoOutcome

Next ==
    \/ CallToOrder
    \/ CallToTrade
    \/ CallDeposit
    \/ CallGetSymbols
    \/ CallGetConfig
    \/ CallGetOrders
    \/ CallPlaceOrder
    \/ CallCancelOrder
    \/ CallGetTrades
    \/ CallGetAllTrades
    \/ Done

Spec == Init /\ [][Next]_vars

\* ------------------------------------------------------ properties
Ended(m) == pc = "done" /\ method = m
Returned(m) == Ended(m) /\ outcome.kind = "return"
Raised(m, e) == Ended(m) /\ outcome.kind = "raise" /\ outcome.error = e
Parsed == response.delivered /\ response.ok /\ response.isJson

\* C1: cancel_order returns true iff the first element of the response is
\* the requested order_id, and on every successful response with a JSON
\* body it returns a boolean (false when the cancellation is not confirmed)
\* instead of raising.
C1_CancelReturnsBooleanOnParsedResponse ==
    (Ended("cancel_order") /\ Len(httpLog) = 1 /\ Parsed) =>
        /\ outcome.kind = "return"
        /\ outcome.value = (/\ response.json.t = "list"
                            /\ Len(response.json.v) > 0
                            /\ response.json.v[1].t = "num"
                            /\ response.json.v[1].n = args.order_id)

\* the Wads to_trade computes from its raw trade
C2_amount_orig == TruncDiv(args.trade.amount_orig * WadUnit, RawScale)
C2_total == TruncDiv(TruncDiv(args.trade.price * WadUnit, RawScale) * C2_amount_orig, WadUnit)
C2_back == TruncDiv(outcome.value.price * C2_total, WadUnit)

\* C2 (as stated): for every raw trade, the Trade of to_trade has
\* price * total == amount_orig in Wad arithmetic.
C2_RoundTripExact ==
    Returned("to_trade") => C2_back = C2_amount_orig

\* C2 (amended): price * total has the sign of amount_orig, is never larger
\* in magnitude, and falls short of it by at most |total| rounded up to
\* whole units, counted in smallest Wad units.
C2_RoundTripWithinRounding ==
    Returned("to_trade") =>
        /\ (C2_amount_orig > 0 => C2_back >= 0)
        /\ (C2_amount_orig < 0 => C2_back <= 0)
        /\ Abs(C2_back) <= Abs(C2_amount_orig)
        /\ Abs(C2_amount_orig) - Abs(C2_back)
               <= (Abs(C2_total) + WadUnit - 1) \div WadUnit

\* a trade whose reciprocal price was rounded: the round trip falls short
C2_Witness ==
    /\ Returned("to_trade")
    /\ C2_back # C2_amount_orig
    /\ outcome.value.price # 0

\* C3 (as stated): every Order of to_order, and every element of get_orders,
\* has price >= 0 and amount >= 0, whatever the signs of the raw amount and
\* the raw price.
C3_OrderNonNegative ==
    /\ Returned("to_order") => outcome.value.price >= 0 /\ outcome.value.amount >= 0
    /\ (Returned("get_orders") /\ response.json.t = "list") =>
           \A i \in 1..Len(outcome.value) :
               outcome.value[i].price >= 0 /\ outcome.value[i].amount >= 0

\* C3 (amended): the same for the raw orders whose price is not negative.
C3_OrderNonNegativeForNonNegativePrice ==
    /\ (Returned("to_order") /\ args.order.price >= 0) =>
           outcome.value.price >= 0 /\ outcome.value.amount >= 0
    /\ (Returned("get_orders") /\ response.json.t = "list") =>
           \A i \in 1..Len(outcome.value) :
               response.json.v[i].price >= 0 =>
                   outcome.value[i].price >= 0 /\ outcome.value[i].amount >= 0

\* an Order made from a negative raw amount at a positive raw price
C3_Witness ==
    /\ Returned("to_order")
    /\ args.order.amount < 0
    /\ args.order.price > 0
    /\ outcome.value.amount > 0
    /\ ~outcome.value.is_sell

\* the Wads to_order computes from its raw order
C4_amount == Abs(TruncDiv(args.order.amount * WadUnit, RawScale))
C4_quote == TruncDiv(C4_amount * TruncDiv(args.order.price * WadUnit, RawScale), WadUnit)

C4_Fields ==
    /\ outcome.kind = "return"
    /\ outcome.value.is_sell = (args.order.amount > 0)
    /\ outcome.value.amount = C4_quote
    /\ outcome.value.price = TruncDiv(C4_amount * WadUnit, C4_quote)
    /\ outcome.value.pair = args.pair
    /\ outcome.value.order_id = args.order.id

\* C4 (as stated): for every raw order with amount != 0, to_order yields an
\* Order with is_sell == (raw.amount > 0), amount == abs(raw.amount) *
\* raw.price and price == abs(raw.amount) / (abs(raw.amount) * raw.price).
C4_ToOrderForNonZeroAmount ==
    (Ended("to_order") /\ args.order.amount # 0) => C4_Fields

\* C4 (amended): the same for the raw orders whose quote
\* abs(raw.amount) * raw.price is not zero in Wad arithmetic; on a zero quote
\* to_order raises.
C4_ToOrderForNonZeroQuote ==
    /\ (Ended("to_order") /\ C4_quote # 0) => C4_Fields
    /\ (Ended("to_order") /\ C4_quote = 0) => outcome.kind = "raise"

\* a buy (negative raw amount) with a non-zero quote
C4_Witness ==
    /\ Returned("to_order")
    /\ args.order.amount < 0
    /\ C4_quote # 0
    /\ outcome.value.price # WadUnit

\* C5: when the raw amount is zero or the product raw.price * amount is zero,
\* to_order and to_trade raise an arithmetic error and return nothing; no
\* Order or Trade comes out of a division by zero.
C5_ZeroDivisorRaises ==
    /\ (Ended("to_order") /\ (args.order.amount = 0 \/ C4_quote = 0)) =>
           outcome.kind = "raise" /\ outcome.error = "ArithmeticError"
    /\ (Ended("to_trade") /\ (args.trade.amount_orig = 0 \/ C2_total = 0)) =>
           outcome.kind = "raise" /\ outcome.error = "ArithmeticError"
    /\ Returned("to_order") => C4_quote # 0
    /\ Returned("to_trade") => C2_total # 0

\* a non-zero raw amount whose quote rounds to zero
C5_Witness ==
    /\ Raised("to_order", "ArithmeticError")
    /\ args.order.amount # 0
    /\ args.order.price # 0

\* C6: get_trades and get_all_trades reject page_number != 1 before any
\* signing and before any HTTP request.
C6_PageRejectedBeforeRequest ==
    ((Ended("get_trades") \/ Ended("get_all_trades")) /\ args.page_number # 1) =>
        /\ outcome.kind = "raise"
        /\ outcome.error = "AssertionError"
        /\ httpLog = <<>>
        /\ signLog = <<>>

C6_Witness ==
    /\ Raised("get_trades", "AssertionError")
    /\ args.page_number > 1
    /\ httpLog = <<>>

\* C7: _result maps a response to exactly one of: the HTTP error when the
\* status is not a success, whatever the body; the JSON error, a different
\* error, when the status is a success and the body is not JSON; the parsed
\* JSON, unchanged, otherwise.
C7_ResultThreeOutcomes ==
    (pc = "done" /\ Len(httpLog) > 0 /\ response.delivered) =>
        /\ ~response.ok =>
               result.kind = "raise" /\ result.error = HttpError
        /\ (response.ok /\ ~response.isJson) =>
               result.kind = "raise" /\ result.error = JsonError
        /\ (response.ok /\ response.isJson) =>
               result.kind = "return" /\ result.value = response.json
        /\ HttpError # JsonError

\* a failure status whose body is not JSON: the HTTP error, not the JSON one
C7_Witness ==
    /\ Ended("cancel_order")
    /\ response.delivered /\ ~response.ok /\ ~response.isJson
    /\ result.error = HttpError

PublicMethods ==
    {"get_symbols", "get_config", "get_orders", "place_order", "cancel_order",
     "get_trades", "get_all_trades"}

\* C8: a public method issues at most one HTTP request per invocation, and
\* when that request fails the invocation raises, without a second request
\* and without a result.
C8_AtMostOneRequest ==
    (pc = "done" /\ method \in PublicMethods) =>
        /\ Len(httpLog) <= 1
        /\ (Len(httpLog) > 0 /\ ~Parsed) =>
               outcome.kind = "raise" /\ outcome.value = <<>>

\* a signed POST the server never answered
C8_Witness ==
    /\ Ended("get_orders")
    /\ Len(httpLog) = 1
    /\ ~response.delivered
    /\ outcome.kind = "raise"

\* the decimal number a wire string spells, in smallest Wad units
CharDigit(c) == CHOOSE d \in 0..9 : DigitChars[d + 1] = c

RECURSIVE DigitsValue(_)
DigitsValue(s) ==
    IF Len(s) = 0 THEN 0
    ELSE 10 * DigitsValue(SubSeq(s, 1, Len(s) - 1)) + CharDigit(s[Len(s)])

ParseDecimal(s) ==
    LET neg == s[1] = "-"
        body == IF neg THEN Tail(s) ELSE s
        v == DigitsValue(SelectSeq(body, LAMBDA c : c # "."))
    IN  IF neg THEN -v ELSE v

\* C9: for positive pay_amount and buy_amount the payload place_order posts
\* spells buy_amount and the price pay_amount / buy_amount when selling,
\* minus pay_amount and the price buy_amount / pay_amount when buying; the
\* amount on the wire is positive exactly when is_sell.
C9_PlaceOrderPayload ==
    (Ended("place_order") /\ args.pay_amount > 0 /\ args.buy_amount > 0) =>
        /\ Len(httpLog) = 1
        /\ LET data == httpLog[1].json
           IN  /\ args.is_sell =>
                      /\ ParseDecimal(data.amount) = args.buy_amount
                      /\ ParseDecimal(data.price)
                             = TruncDiv(args.pay_amount * WadUnit, args.buy_amount)
               /\ ~args.is_sell =>
                      /\ ParseDecimal(data.amount) = -args.pay_amount
                      /\ ParseDecimal(data.price)
                             = TruncDiv(args.buy_amount * WadUnit, args.pay_amount)
               /\ (data.amount[1] # "-") = args.is_sell

\* a buy of unequal amounts: the wire amount is negative
C9_Witness ==
    /\ Ended("place_order")
    /\ ~args.is_sell
    /\ args.pay_amount > 0 /\ args.buy_amount > args.pay_amount
    /\ Len(httpLog) = 1
    /\ httpLog[1].json.amount[1] = "-"

\* C10: deposit builds a deposit(amount, duration) call that carries the
\* value amount iff the token is "ETH", and no value otherwise; it returns
\* the handle and sends nothing.
C10_DepositValueIffEth ==
    Ended("deposit") =>
        /\ outcome.kind = "return"
        /\ outcome.value.function_name = "deposit"
        /\ outcome.value.parameters = <<args.amount, args.duration>>
        /\ (args.token = "ETH") => outcome.value.extra = {<<"value", args.amount>>}
        /\ (args.token # "ETH") => outcome.value.extra = {}
        /\ transacted = <<>>
        /\ httpLog = <<>>

C10_Witness ==
    /\ Ended("deposit")
    /\ args.token = "DAI"
    /\ args.amount > 0
    /\ outcome.value.extra = {}
====
